---- MODULE Spec2Model ----
(***************************************************************************)
(* Model of the portfolio contact API: the Contact model's spam scorer and *)
(* submission limiter (three historical variants of models/Contact.js),    *)
(* and the contact controller's request handlers (three variants of        *)
(* controllers/contactController.js).                                      *)
(*                                                                         *)
(* Texts are TLA+ strings; TLC evaluates Len, SubSeq and \o on them, so    *)
(* the scorer is computed character by character as the JavaScript does.   *)
(*                                                                         *)
(* Spec      : requests processed under every behaviour of the database    *)
(*             and of the email service                                    *)
(* SpecLimit : the limiter against a history of stored submissions         *)
(* SpecScore : the scorer called directly                                  *)
(***************************************************************************)
EXTENDS Integers, Sequences, FiniteSets, Bags, TLC

(***************************************************************************)
(* JavaScript string primitives                                            *)
(***************************************************************************)

CharAt(s, i) == SubSeq(s, i, i)

\* [A-Z]
UpperChars ==
    { "A", "B", "C", "D", "E", "F", "G", "H", "I", "J", "K", "L", "M",
      "N", "O", "P", "Q", "R", "S", "T", "U", "V", "W", "X", "Y", "Z" }

\* [a-z]
LowerChars ==
    { "a", "b", "c", "d", "e", "f", "g", "h", "i", "j", "k", "l", "m",
      "n", "o", "p", "q", "r", "s", "t", "u", "v", "w", "x", "y", "z" }

\* [0-9]
DigitChars == {"0", "1", "2", "3", "4", "5", "6", "7", "8", "9"}

\* \s (the inputs use blank, tab and newline)
SpaceChars == {" ", "\t", "\n"}

\* \w : [A-Za-z0-9_]
WordChars == UpperChars \cup LowerChars \cup DigitChars \cup {"_"}

\* /[A-Z]/
IsUpper(c) == c \in UpperChars

\* /\d/
IsDigit(c) == c \in DigitChars

\* /\w/
IsWordChar(c) == c \in WordChars

\* /\s/
IsSpace(c) == c \in SpaceChars

\* the lower-case letter of each capital
LowerCaseOf ==
    "A" :> "a" @@ "B" :> "b" @@ "C" :> "c" @@ "D" :> "d" @@ "E" :> "e" @@ "F" :> "f"
    @@ "G" :> "g" @@ "H" :> "h" @@ "I" :> "i" @@ "J" :> "j" @@ "K" :> "k" @@ "L" :> "l"
    @@ "M" :> "m" @@ "N" :> "n" @@ "O" :> "o" @@ "P" :> "p" @@ "Q" :> "q" @@ "R" :> "r"
    @@ "S" :> "s" @@ "T" :> "t" @@ "U" :> "u" @@ "V" :> "v" @@ "W" :> "w" @@ "X" :> "x"
    @@ "Y" :> "y" @@ "Z" :> "z"

LowerOf(c) == IF IsUpper(c) THEN LowerCaseOf[c] ELSE c

RECURSIVE toLowerCase(_)
\* String.prototype.toLowerCase
toLowerCase(s) ==
    IF Len(s) = 0 THEN ""
    ELSE LowerOf(CharAt(s, 1)) \o toLowerCase(SubSeq(s, 2, Len(s)))

\* String.prototype.includes
includes(s, k) ==
    \E i \in 1..(Len(s) - Len(k) + 1) : SubSeq(s, i, i + Len(k) - 1) = k

RECURSIVE trimStart(_)
trimStart(s) ==
    IF Len(s) > 0 /\ IsSpace(CharAt(s, 1)) THEN trimStart(SubSeq(s, 2, Len(s))) ELSE s

RECURSIVE trimEnd(_)
trimEnd(s) ==
    IF Len(s) > 0 /\ IsSpace(CharAt(s, Len(s))) THEN trimEnd(SubSeq(s, 1, Len(s) - 1)) ELSE s

\* String.prototype.trim
trim(s) == trimEnd(trimStart(s))

\* the positions of s that hold the character c
PositionsOf(s, c) == {i \in 1..Len(s) : CharAt(s, i) = c}

SetMax(S) == CHOOSE x \in S : \A y \in S : y <= x

SetMin(S) == CHOOSE x \in S : \A y \in S : x <= y

\* s.split(c)[0]
BeforeFirst(s, c) ==
    IF PositionsOf(s, c) = {} THEN s ELSE SubSeq(s, 1, SetMin(PositionsOf(s, c)) - 1)

\* s.split(c).pop()
AfterLast(s, c) ==
    IF PositionsOf(s, c) = {} THEN s ELSE SubSeq(s, SetMax(PositionsOf(s, c)) + 1, Len(s))

\* s.split(c)[1]: the part between the first and the second c ("" when s has no c
\* stands for undefined, which the callers only meet on invalid addresses)
SecondPart(s, c) ==
    IF PositionsOf(s, c) = {} THEN ""
    ELSE BeforeFirst(SubSeq(s, SetMin(PositionsOf(s, c)) + 1, Len(s)), c)

RECURSIVE split(_, _)
\* String.prototype.split with a one-character separator
split(s, c) ==
    IF PositionsOf(s, c) = {} THEN <<s>>
    ELSE <<BeforeFirst(s, c)>> \o split(SubSeq(s, SetMin(PositionsOf(s, c)) + 1, Len(s)), c)

\* (s.match(/[A-Z]/g) || []).length
CapitalCount(s) == Cardinality({i \in 1..Len(s) : IsUpper(CharAt(s, i))})

\* /^\d+$/.test(s)
IsNumeric(s) == Len(s) > 0 /\ \A i \in 1..Len(s) : IsDigit(CharAt(s, i))

\* the end of the run of non-blank characters that starts at position i
RECURSIVE RunEnd(_, _)
RunEnd(s, i) ==
    IF i < Len(s) /\ ~IsSpace(CharAt(s, i + 1)) THEN RunEnd(s, i + 1) ELSE i

\* does /https?:\/\/[^\s]+/ match at position i
UrlAt(s, i) ==
    \/ i + 7 <= Len(s) /\ SubSeq(s, i, i + 6) = "http://" /\ ~IsSpace(CharAt(s, i + 7))
    \/ i + 8 <= Len(s) /\ SubSeq(s, i, i + 7) = "https://" /\ ~IsSpace(CharAt(s, i + 8))

RECURSIVE UrlCountFrom(_, _)
UrlCountFrom(s, i) ==
    IF i > Len(s) THEN 0
    ELSE IF UrlAt(s, i) THEN 1 + UrlCountFrom(s, RunEnd(s, i) + 1)
    ELSE UrlCountFrom(s, i + 1)

\* (s.match(/https?:\/\/[^\s]+/g) || []).length : the matches do not overlap and
\* each takes the rest of its run of non-blank characters
UrlCount(s) == UrlCountFrom(s, 1)

\* the end of the run of copies of the character at position i
RECURSIVE SameEnd(_, _)
SameEnd(s, i) ==
    IF i < Len(s) /\ CharAt(s, i + 1) = CharAt(s, i) THEN SameEnd(s, i + 1) ELSE i

RECURSIVE RepeatCountFrom(_, _)
RepeatCountFrom(s, i) ==
    IF i > Len(s) THEN 0
    ELSE IF CharAt(s, i) # "\n" /\ SameEnd(s, i) - i + 1 >= 5
         THEN 1 + RepeatCountFrom(s, SameEnd(s, i) + 1)
         ELSE RepeatCountFrom(s, SameEnd(s, i) + 1)

\* (s.match(/(.)\1{4,}/g) || []).length : runs of five or more equal characters
RepeatCount(s) == RepeatCountFrom(s, 1)

\* s.split(/\s+/).length : one more than the number of runs of blanks
WordCount(s) ==
    1 + Cardinality({i \in 1..Len(s) :
                        IsSpace(CharAt(s, i)) /\ (i = 1 \/ ~IsSpace(CharAt(s, i - 1)))})

\* does /\b(k)\b/ match in s, for a k that starts and ends with a word character
MatchesWord(s, k) ==
    \E i \in 1..(Len(s) - Len(k) + 1) :
        /\ SubSeq(s, i, i + Len(k) - 1) = k
        /\ (i = 1 \/ ~IsWordChar(CharAt(s, i - 1)))
        /\ (i + Len(k) - 1 = Len(s) \/ ~IsWordChar(CharAt(s, i + Len(k))))

Min(a, b) == IF a < b THEN a ELSE b

Max(a, b) == IF a > b THEN a ELSE b

(***************************************************************************)
(* The spam scorer: Contact.calculateSpamScore, in its three variants      *)
(***************************************************************************)

\* the variants of models/Contact.js
ContactVariants == {"contactV1", "contactV2", "contactV3"}

\* variant 1: suspiciousKeywords
suspiciousKeywordsV1 == <<"urgent", "money", "free", "winner", "prize", "click here">>

\* the number of entries of a keyword list that the text includes
KeywordHits(text, keywords) ==
    Cardinality({i \in 1..Len(keywords) : includes(text, keywords[i])})

\* variant 1: the capital ratio is 0/0 = NaN on an empty message, and NaN > 0.5 is false
CapitalBonusV1(message) ==
    IF Len(message) = 0 THEN 0
    ELSE IF 2 * CapitalCount(message) > Len(message) THEN 2 ELSE 0

\* variant 1: score += urlCount * 2
urlPointsV1(message) == UrlCount(message) * 2

\* variant 1 returns the sum as it is
calculateSpamScoreV1(data) ==
    LET message == toLowerCase(data.message \o " " \o data.subject)
    IN  KeywordHits(message, suspiciousKeywordsV1)
        + CapitalBonusV1(data.message)
        + urlPointsV1(data.message)

\* variant 2: suspiciousPatterns; groups is the number of capture groups of the
\* regular expression, alts its alternatives
suspiciousPatterns ==
    << [alts |-> <<"urgent", "asap", "immediately">>, groups |-> 1, weight |-> 2],
       [alts |-> <<"money", "cash", "price", "payment", "loan">>, groups |-> 1, weight |-> 3],
       [alts |-> <<"free", "winner", "prize", "lottery", "bonus">>, groups |-> 1, weight |-> 3],
       [alts |-> <<"click here", "visit now", "limited time">>, groups |-> 1, weight |-> 2],
       [alts |-> <<"guarantee", "risk-free", "satisfaction">>, groups |-> 1, weight |-> 2],
       [alts |-> <<"dear friend", "dear user", "hello">>, groups |-> 2, weight |-> 1],
       [alts |-> <<"viagra", "cialis", "pharmacy">>, groups |-> 1, weight |-> 5] >>

\* combinedText.match(pattern) without the g flag: null, or an array that holds the
\* match and one entry per capture group; its length is what the code multiplies by
MatchLength(text, p) ==
    IF \E i \in 1..Len(p.alts) : MatchesWord(text, p.alts[i]) THEN 1 + p.groups ELSE 0

RECURSIVE PatternScore(_, _)
PatternScore(text, i) ==
    IF i > Len(suspiciousPatterns) THEN 0
    ELSE suspiciousPatterns[i].weight * MatchLength(text, suspiciousPatterns[i])
         + PatternScore(text, i + 1)

suspiciousDomains == {"ru", "cn", "tk", "ml", "ga", "cf"}

\* variant 2: capitalRatio > 0.6 with the length guarded by Math.max(length, 1)
CapitalBonusV2(message) ==
    IF 10 * CapitalCount(message) > 6 * Max(Len(message), 1) THEN 2 ELSE 0

\* variant 2: nameParts.some(part => emailUser.includes(part))
nameInEmail(name, email) ==
    LET nameParts == split(toLowerCase(name), " ")
        emailUser == toLowerCase(BeforeFirst(email, "@"))
    IN  \E i \in 1..Len(nameParts) : includes(emailUser, nameParts[i])

\* variant 2: score += urlCount * 3, the URLs counted in combinedText
urlPointsV2(combinedText) == UrlCount(combinedText) * 3

calculateSpamScoreV2(data) ==
    LET combinedText == toLowerCase(data.message \o " " \o data.subject)
        score == PatternScore(combinedText, 1)
                 + urlPointsV2(combinedText)
                 + (IF AfterLast(data.email, ".") \in suspiciousDomains THEN 2 ELSE 0)
                 + CapitalBonusV2(data.message)
                 + RepeatCount(data.message)
                 + (IF Len(data.message) < 20 THEN 1 ELSE 0)
                 + (IF Len(data.message) > 800 THEN 1 ELSE 0)
                 + (IF ~nameInEmail(data.name, data.email) THEN 1 ELSE 0)
    IN  Min(Max(score, 0), 10)

\* variant 3: spamKeywords
spamKeywords ==
    << "urgent", "money", "free", "winner", "prize", "click here", "buy now",
       "limited time", "act now", "special promotion", "cash", "profit",
       "make money", "work from home", "get rich", "viagra", "casino",
       "lottery", "credit card", "loan", "mortgage", "insurance" >>

\* variant 3: NaN on an empty message; > 0.6 adds 3, else > 0.4 adds 1
CapitalBonusV3(message) ==
    IF Len(message) = 0 THEN 0
    ELSE IF 10 * CapitalCount(message) > 6 * Len(message) THEN 3
    ELSE IF 10 * CapitalCount(message) > 4 * Len(message) THEN 1
    ELSE 0

\* variant 3: score += Math.min(urlCount * 3, 6)
urlPointsV3(message) == Min(UrlCount(message) * 3, 6)

calculateSpamScoreV3(data) ==
    LET fullText == toLowerCase(data.message \o " " \o data.subject \o " " \o data.name)
        emailLocalPart == BeforeFirst(data.email, "@")
        score == Min(KeywordHits(fullText, spamKeywords) * 2, 6)
                 + CapitalBonusV3(data.message)
                 + urlPointsV3(data.message)
                 + (IF Len(emailLocalPart) > 30 THEN 1 ELSE 0)
                 + (IF IsNumeric(emailLocalPart) THEN 2 ELSE 0)
                 + (IF includes(emailLocalPart, "..") THEN 1 ELSE 0)
                 + (IF Len(data.name) < 3 THEN 1 ELSE 0)
                 + (IF IsNumeric(data.name) THEN 2 ELSE 0)
                 + (IF data.name = emailLocalPart THEN 1 ELSE 0)
                 + (IF WordCount(data.message) < 5 THEN 1 ELSE 0)
                 + (IF WordCount(data.message) > 200 THEN 1 ELSE 0)
                 + RepeatCount(data.message)
    IN  Min(score, 10)

\* the URL step of the deployed variant
urlPoints(variant, data) ==
    CASE variant = "contactV1" -> urlPointsV1(data.message)
      [] variant = "contactV2" -> urlPointsV2(toLowerCase(data.message \o " " \o data.subject))
      [] variant = "contactV3" -> urlPointsV3(data.message)

\* Contact.calculateSpamScore of the deployed variant
calculateSpamScore(variant, data) ==
    CASE variant = "contactV1" -> calculateSpamScoreV1(data)
      [] variant = "contactV2" -> calculateSpamScoreV2(data)
      [] variant = "contactV3" -> calculateSpamScoreV3(data)


(***************************************************************************)
(* The Contact schema: documents, setters, validators, pre-save hooks      *)
(***************************************************************************)

\* the value of a field a schema variant or a response does not have
Absent == "absent"

\* the verdict threshold of submitContact and of the variant 3 hook
SpamThreshold == 5

\* [^\s@]+
NoBlankNoAt(s) ==
    Len(s) > 0 /\ \A i \in 1..Len(s) : ~IsSpace(CharAt(s, i)) /\ CharAt(s, i) # "@"

\* /^[^\s@]+@[^\s@]+\.[^\s@]+$/
IsBasicEmail(s) ==
    \E a \in 1..Len(s) :
        /\ CharAt(s, a) = "@"
        /\ NoBlankNoAt(SubSeq(s, 1, a - 1))
        /\ \E d \in (a + 1)..Len(s) :
              /\ CharAt(s, d) = "."
              /\ NoBlankNoAt(SubSeq(s, a + 1, d - 1))
              /\ NoBlankNoAt(SubSeq(s, d + 1, Len(s)))

\* \w+([.-]?\w+)* : word characters with single dots or hyphens between them
IsDottedWords(s) ==
    /\ Len(s) > 0
    /\ IsWordChar(CharAt(s, 1))
    /\ IsWordChar(CharAt(s, Len(s)))
    /\ \A i \in 1..Len(s) :
          \/ IsWordChar(CharAt(s, i))
          \/ CharAt(s, i) \in {".", "-"} /\ IsWordChar(CharAt(s, i + 1))

\* /^\w+([.-]?\w+)*@\w+([.-]?\w+)*(\.\w{2,3})+$/ : the last label has two or three
\* word characters and what precedes its dot is again dotted words
IsStrictEmail(s) ==
    \E a \in 1..Len(s) :
        /\ CharAt(s, a) = "@"
        /\ IsDottedWords(SubSeq(s, 1, a - 1))
        /\ LET domain == SubSeq(s, a + 1, Len(s))
               tld == AfterLast(domain, ".")
           IN  /\ PositionsOf(domain, ".") # {}
               /\ Len(tld) \in {2, 3}
               /\ \A i \in 1..Len(tld) : IsWordChar(CharAt(tld, i))
               /\ IsDottedWords(SubSeq(domain, 1, Len(domain) - Len(tld) - 1))

disposableDomains ==
    { "tempmail.com", "guerrillamail.com", "mailinator.com", "10minutemail.com",
      "yopmail.com", "throwaway.com", "fakeinbox.com", "trashmail.com",
      "disposable.com", "temp-mail.org", "getairmail.com" }

\* variant 3: the validator of the email path
IsPermanentEmail(email) ==
    LET domain == SecondPart(email, "@")
    IN  ~\E disposable \in disposableDomains :
            includes(domain, disposable) \/ includes(disposable, domain)

AllIn(s, class) == \A i \in 1..Len(s) : CharAt(s, i) \in class

\* /^[a-zA-Z\s\-'.]+$/
IsNameText(s) ==
    Len(s) > 0 /\ AllIn(s, UpperChars \cup LowerChars \cup SpaceChars \cup {"-", "'", "."})

\* /^[a-zA-Z0-9\s\-_.,!?()]+$/
IsSubjectText(s) ==
    Len(s) > 0 /\ AllIn(s, UpperChars \cup LowerChars \cup DigitChars \cup SpaceChars
                             \cup {"-", "_", ".", ",", "!", "?", "(", ")"})

\* /^\d{1,3}\.\d{1,3}\.\d{1,3}\.\d{1,3}$/
IsIPv4(s) ==
    LET parts == split(s, ".")
    IN  Len(parts) = 4 /\ \A i \in 1..4 : IsNumeric(parts[i]) /\ Len(parts[i]) <= 3

\* new Contact(contactData): the setters of the schema (trim, lowercase) and its
\* defaults; data carries name, email, subject, message, ipAddress, spamScore, isSpam
newContact(variant, data) ==
    [ name |-> trim(data.name),
      email |-> toLowerCase(trim(data.email)),
      subject |-> trim(data.subject),
      message |-> trim(data.message),
      ipAddress |-> data.ipAddress,
      isSpam |-> data.isSpam,
      spamScore |-> data.spamScore,
      status |-> IF variant = "contactV1" THEN Absent ELSE "pending",
      submissionType |-> IF variant = "contactV3" THEN "normal" ELSE Absent,
      createdAt |-> 0 ]

\* the schema validation that save() runs before the pre-save hooks
validates(variant, doc) ==
    /\ Len(doc.name) > 0 /\ Len(doc.name) <= 50
    /\ Len(doc.email) > 0 /\ Len(doc.email) <= 100
    /\ Len(doc.subject) > 0 /\ Len(doc.subject) <= 100
    /\ Len(doc.message) > 0 /\ Len(doc.message) <= 1000
    /\ Len(doc.ipAddress) > 0
    /\ variant # "contactV1" =>
          /\ Len(doc.name) >= 2 /\ IsNameText(doc.name)
          /\ Len(doc.subject) >= 5 /\ IsSubjectText(doc.subject)
          /\ Len(doc.message) >= 10
          /\ doc.spamScore >= 0 /\ doc.spamScore <= 10
    /\ variant = "contactV2" => IsBasicEmail(doc.email)
    /\ variant = "contactV3" =>
          /\ IsStrictEmail(doc.email) /\ IsPermanentEmail(doc.email)
          /\ IsIPv4(doc.ipAddress)

\* variant 3: determineSubmissionType
determineSubmissionType(spamScore) ==
    IF spamScore >= 8 THEN "blocked"
    ELSE IF spamScore >= 5 THEN "suspicious"
    ELSE "normal"

ScoredFields(doc) ==
    [name |-> doc.name, email |-> doc.email, subject |-> doc.subject, message |-> doc.message]

\* variant 2: pre('save'); modified is the set of paths isModified() answers true for
preSaveV2(doc, isNew, modified) ==
    IF "message" \in modified \/ "subject" \in modified \/ isNew
    THEN LET spamScore == calculateSpamScoreV2(ScoredFields(doc))
         IN  IF spamScore >= 7 /\ "isSpam" \notin modified
             THEN [doc EXCEPT !.spamScore = spamScore, !.isSpam = TRUE, !.status = "archived"]
             ELSE [doc EXCEPT !.spamScore = spamScore]
    ELSE doc

\* variant 3: pre('save')
preSaveV3(doc, modified) ==
    IF modified \cap {"name", "email", "subject", "message"} # {}
    THEN LET spamScore == calculateSpamScoreV3(ScoredFields(doc))
         IN  [doc EXCEPT !.spamScore = spamScore,
                         !.isSpam = (spamScore >= SpamThreshold),
                         !.submissionType = determineSubmissionType(spamScore)]
    ELSE doc

\* the pre-save hook of the deployed variant (variant 1 has none)
preSave(variant, doc, isNew, modified) ==
    CASE variant = "contactV1" -> doc
      [] variant = "contactV2" -> preSaveV2(doc, isNew, modified)
      [] variant = "contactV3" -> preSaveV3(doc, modified)

\* the paths submitContact sets on a new document
ControllerPaths ==
    {"name", "email", "subject", "message", "ipAddress", "userAgent", "spamScore", "isSpam"}

\* the document that contact.save() inserts for a new contact, timestamps included
savedContact(variant, data, t) ==
    [preSave(variant, newContact(variant, data), TRUE, ControllerPaths) EXCEPT !.createdAt = t]

(***************************************************************************)
(* The submission limiter: Contact.checkSubmissionLimit                    *)
(***************************************************************************)

\* the default of the timeWindow parameter
DefaultTimeWindow == 24 * 60 * 60 * 1000

\* countDocuments(filter) on the collection, a bag of documents; matching: the
\* documents the filter selects
countDocuments(collection, matching) ==
    BagCardinality([d \in BagToSet(collection) \cap matching |-> CopiesIn(d, collection)])

\* the email and IP filters without the createdAt condition
NonSpamEver(collection, field, value, since) ==
    countDocuments(collection,
        {d \in BagToSet(collection) : d[field] = value /\ d.isSpam = FALSE})

\* the email and IP filters of variants 1 and 2: isSpam: false
NonSpamSince(collection, field, value, since) ==
    countDocuments(collection,
        {d \in BagToSet(collection) :
            d[field] = value /\ d.createdAt >= since /\ d.isSpam = FALSE})

\* the email and IP filters of variant 3: submissionType: { $ne: 'blocked' }
NotBlockedSince(collection, field, value, since) ==
    countDocuments(collection,
        {d \in BagToSet(collection) :
            d[field] = value /\ d.createdAt >= since /\ d.submissionType # "blocked"})

\* the recent-spam filter of variants 2 and 3
SpamSince(collection, email, ipAddress, since) ==
    countDocuments(collection,
        {d \in BagToSet(collection) :
            (d.email = email \/ d.ipAddress = ipAddress)
            /\ d.createdAt >= since /\ d.isSpam = TRUE})

\* variant 1 with the IP limit one too high
checkSubmissionLimitV1Lax(email, ipAddress, timeWindow, ready, collection, t, queryFails) ==
    IF ready # 1 \/ queryFails
    THEN [emailCount |-> 0, ipCount |-> 0, isOverLimit |-> FALSE]
    ELSE LET emailCount == NonSpamSince(collection, "email", toLowerCase(email), t - timeWindow)
             ipCount == NonSpamSince(collection, "ipAddress", ipAddress, t - timeWindow)
         IN  [emailCount |-> emailCount, ipCount |-> ipCount,
              isOverLimit |-> (emailCount >= 3 \/ ipCount > 5)]

\* variant 1; queryFails: a count query rejects (an error, or maxTimeMS runs out)
checkSubmissionLimitV1(email, ipAddress, timeWindow, ready, collection, t, queryFails) ==
    IF ready # 1 \/ queryFails
    THEN [emailCount |-> 0, ipCount |-> 0, isOverLimit |-> FALSE]
    ELSE LET emailCount == NonSpamSince(collection, "email", toLowerCase(email), t - timeWindow)
             ipCount == NonSpamSince(collection, "ipAddress", ipAddress, t - timeWindow)
         IN  [emailCount |-> emailCount, ipCount |-> ipCount,
              isOverLimit |-> (emailCount >= 3 \/ ipCount >= 5)]

checkSubmissionLimitV2(email, ipAddress, timeWindow, ready, collection, t, queryFails) ==
    IF ready # 1
    THEN [emailCount |-> 0, ipCount |-> 0, isOverLimit |-> FALSE,
          limits |-> [email |-> 3, ip |-> 5]]
    ELSE IF queryFails
    THEN [emailCount |-> 0, ipCount |-> 0, recentSpamCount |-> 0, isOverLimit |-> FALSE,
          limits |-> [email |-> 3, ip |-> 5], hasRecentSpam |-> FALSE,
          error |-> "Unable to verify submission limits"]
    ELSE LET emailCount == NonSpamSince(collection, "email", toLowerCase(email), t - timeWindow)
             ipCount == NonSpamSince(collection, "ipAddress", ipAddress, t - timeWindow)
             recentSpamCount == SpamSince(collection, toLowerCase(email), ipAddress, t - timeWindow)
             isOverLimit == emailCount >= 3 \/ ipCount >= 5
             hasRecentSpam == recentSpamCount > 2
         IN  [emailCount |-> emailCount, ipCount |-> ipCount,
              recentSpamCount |-> recentSpamCount,
              isOverLimit |-> (isOverLimit \/ hasRecentSpam),
              limits |-> [email |-> 3, ip |-> 5], hasRecentSpam |-> hasRecentSpam]

\* variant 3 does not look at readyState: on a connection that is not ready the
\* queries are buffered by the driver and reject when the buffer times out
checkSubmissionLimitV3(email, ipAddress, timeWindow, ready, collection, t, queryFails) ==
    IF ready # 1 \/ queryFails
    THEN [emailCount |-> 0, ipCount |-> 0, recentSpamCount |-> 0, isOverLimit |-> TRUE,
          error |-> "System temporarily unavailable"]
    ELSE LET emailCount == NotBlockedSince(collection, "email", toLowerCase(email), t - timeWindow)
             ipCount == NotBlockedSince(collection, "ipAddress", ipAddress, t - timeWindow)
             recentSpamCount == SpamSince(collection, toLowerCase(email), ipAddress, t - timeWindow)
         IN  [emailCount |-> emailCount, ipCount |-> ipCount,
              recentSpamCount |-> recentSpamCount,
              isOverLimit |-> (emailCount >= 3 \/ ipCount >= 5 \/ recentSpamCount >= 2),
              limits |-> [maxPerEmail |-> 3, maxPerIP |-> 5, maxSpam |-> 2]]

\* Contact.checkSubmissionLimit of the deployed variant
checkSubmissionLimit(variant, email, ipAddress, timeWindow, ready, collection, t, queryFails) ==
    CASE variant = "contactV1" ->
            checkSubmissionLimitV1(email, ipAddress, timeWindow, ready, collection, t, queryFails)
      [] variant = "contactV2" ->
            checkSubmissionLimitV2(email, ipAddress, timeWindow, ready, collection, t, queryFails)
      [] variant = "contactV3" ->
            checkSubmissionLimitV3(email, ipAddress, timeWindow, ready, collection, t, queryFails)


(***************************************************************************)
(* The contact controller: ensureDBConnection, validateContactInput,       *)
(* submitContact and getSubmissionStats, in their three variants           *)
(***************************************************************************)

\* the variants of controllers/contactController.js
ControllerVariants == {"ctrlV1", "ctrlV2", "ctrlV3"}

\* ensureDBConnection: true at once on a ready connection; otherwise it closes
\* what is left of the connection and connects, and answers whether that worked
ensureDBConnection(ready, connects) ==
    IF ready = 1 THEN [connected |-> TRUE, ready |-> 1]
    ELSE IF connects THEN [connected |-> TRUE, ready |-> 1]
    ELSE [connected |-> FALSE, ready |-> 0]

\* variant 1: validateContactInput(req.body).isValid
isValidInput(body) ==
    /\ Len(trim(body.name)) > 0
    /\ Len(trim(body.email)) > 0
    /\ Len(trim(body.subject)) > 0
    /\ Len(trim(body.message)) > 0
    /\ Len(body.name) <= 100
    /\ Len(body.email) <= 255
    /\ Len(body.subject) <= 200
    /\ Len(body.message) <= 2000
    /\ IsBasicEmail(body.email)

\* variant 1: validateContactInput(req.body).sanitizedData
sanitizedData(body) ==
    [ name |-> trim(body.name),
      email |-> trim(toLowerCase(body.email)),
      subject |-> trim(body.subject),
      message |-> trim(body.message) ]

\* variants 2 and 3: !name || !email || !subject || !message
hasAllFields(body) ==
    Len(body.name) > 0 /\ Len(body.email) > 0 /\ Len(body.subject) > 0 /\ Len(body.message) > 0

\* req.body.honeypot && req.body.honeypot.length > 0
honeypotTriggered(body) == Len(body.honeypot) > 0

\* the four fields the variant hands to the scorer and to the email service:
\* variant 1 the sanitized ones, variants 2 and 3 those of req.body
handledFields(ctrl, body) ==
    IF ctrl = "ctrlV1" THEN sanitizedData(body) ELSE ScoredFields(body)

\* contactData: variants 2 and 3 trim the fields they store
contactData(ctrl, body, ipAddress, spamScore, isSpam) ==
    [ name |-> trim(body.name),
      email |-> trim(toLowerCase(body.email)),
      subject |-> trim(body.subject),
      message |-> trim(body.message),
      ipAddress |-> ipAddress,
      spamScore |-> spamScore,
      isSpam |-> isSpam ]

\* the checks submitContact makes before it processes the request: variant 1
\* checks the honeypot and then validates; variants 2 and 3 ask for the four
\* fields and then check the honeypot
firstChecks(ctrl, body) ==
    IF ctrl = "ctrlV1"
    THEN IF honeypotTriggered(body) THEN "honeypot"
         ELSE IF ~isValidInput(body) THEN "invalid"
         ELSE "pass"
    ELSE IF ~hasAllFields(body) THEN "invalid"
         ELSE IF honeypotTriggered(body) THEN "honeypot"
         ELSE "pass"

\* what submitContact computes from the request alone: the outcome of its first
\* checks, the spam score and the verdict, the contactData, whether the new
\* document validates, and the document save() would insert (createdAt apart)
requestPlan(ctrl, variant, body, ipAddress) ==
    LET fields == handledFields(ctrl, body)
        spamScore == calculateSpamScore(variant, fields)
        isSpam == spamScore >= SpamThreshold
        data == contactData(ctrl, body, ipAddress, spamScore, isSpam)
    IN  [ checks |-> firstChecks(ctrl, body),
          spamScore |-> spamScore,
          isSpam |-> isSpam,
          data |-> data,
          valid |-> validates(variant, newContact(variant, data)),
          doc |-> savedContact(variant, data, 0) ]

\* the response of a request turned away before it is processed
EarlyOutcome(response, ready) ==
    [ calls |-> <<>>, response |-> response, scored |-> FALSE, spamScore |-> 0,
      isSpam |-> FALSE, stored |-> FALSE, doc |-> Absent, mails |-> {}, ready |-> ready ]

HoneypotResponse == [status |-> 200, success |-> TRUE]

InvalidResponse == [status |-> 400, success |-> FALSE]

\* emailService.sendConfirmationEmail / sendAdminNotification: a result object,
\* success only when the service is configured and the transport accepts the mail
sendMail(configured, accepted) == [success |-> configured /\ accepted]

\* the email service called whatever the verdict
notificationsUngated(isSpam) ==
    <<"sendConfirmationEmail", "sendAdminNotification">>

\* the verdict gates the email service: if (!isSpam) { await sendConfirmationEmail;
\* await sendAdminNotification }, and neither of the two throws
notifications(isSpam) ==
    IF isSpam THEN <<>> ELSE <<"sendConfirmationEmail", "sendAdminNotification">>

\* submitContact as it would be without the try/catch around contact.save(): a
\* save that fails ends the request in the outer catch, with 500 and no email
processSubmissionUncaught(ctrl, plan, configured, ready, t, o) ==
    LET conn == IF ctrl = "ctrlV3" THEN [connected |-> ready = 1, ready |-> ready]
                ELSE ensureDBConnection(ready, o.connect)
        isSpam == plan.isSpam
        attempts == conn.connected /\ (ctrl = "ctrlV1" => ~isSpam)
        inserted == attempts /\ plan.valid /\ o.save # "error"
        dbSuccess == attempts /\ plan.valid /\ o.save = "ok"
        confirmation == sendMail(configured, o.confirm)
        notification == sendMail(configured, o.admin)
        thrown == attempts /\ ~dbSuccess
        base == [status |-> 200, success |-> TRUE, savedToDatabase |-> dbSuccess, isSpam |-> isSpam]
    IN  [ calls |-> (IF ctrl = "ctrlV3" THEN <<>> ELSE <<"ensureDBConnection">>)
                    \o <<"calculateSpamScore">>
                    \o (IF attempts THEN <<"save">> ELSE <<>>)
                    \o (IF thrown THEN <<>> ELSE notifications(isSpam)),
          response |-> IF thrown THEN [status |-> 500, success |-> FALSE, savedToDatabase |-> FALSE]
                       ELSE IF ctrl = "ctrlV1"
                       THEN [status |-> 200, success |-> TRUE, savedToDatabase |-> dbSuccess,
                             emailSent |-> ~isSpam, isSpam |-> isSpam]
                       ELSE base,
          scored |-> TRUE,
          spamScore |-> plan.spamScore,
          isSpam |-> isSpam,
          stored |-> inserted,
          doc |-> IF inserted THEN [plan.doc EXCEPT !.createdAt = t] ELSE Absent,
          mails |-> IF isSpam \/ thrown THEN {}
                    ELSE {m \in {"confirmation", "admin"} :
                            \/ m = "confirmation" /\ confirmation.success
                            \/ m = "admin" /\ notification.success},
          ready |-> conn.ready ]

\* what submitContact does once the request has passed its first checks.
\* o: what the collaborators do (connect: the connection can be made; save: "ok",
\* "error", or "late" for a save that ends after the 3 s timer of variant 3;
\* confirm, admin: the transport accepts the mail)
processSubmission(ctrl, plan, configured, ready, t, o) ==
    LET conn == IF ctrl = "ctrlV3" THEN [connected |-> ready = 1, ready |-> ready]
                ELSE ensureDBConnection(ready, o.connect)
        isSpam == plan.isSpam
        attempts == conn.connected /\ (ctrl = "ctrlV1" => ~isSpam)
        inserted == attempts /\ plan.valid /\ o.save # "error"
        dbSuccess == attempts /\ plan.valid /\ o.save = "ok"
        confirmation == sendMail(configured, o.confirm)
        notification == sendMail(configured, o.admin)
        base == [status |-> 200, success |-> TRUE, savedToDatabase |-> dbSuccess, isSpam |-> isSpam]
    IN  [ calls |-> (IF ctrl = "ctrlV3" THEN <<>> ELSE <<"ensureDBConnection">>)
                    \o <<"calculateSpamScore">>
                    \o (IF attempts THEN <<"save">> ELSE <<>>)
                    \o notifications(isSpam),
          response |-> IF ctrl = "ctrlV1"
                       THEN [status |-> 200, success |-> TRUE, savedToDatabase |-> dbSuccess,
                             emailSent |-> ~isSpam, isSpam |-> isSpam]
                       ELSE base,
          scored |-> TRUE,
          spamScore |-> plan.spamScore,
          isSpam |-> isSpam,
          stored |-> inserted,
          doc |-> IF inserted THEN [plan.doc EXCEPT !.createdAt = t] ELSE Absent,
          mails |-> IF isSpam THEN {}
                    ELSE {m \in {"confirmation", "admin"} :
                            \/ m = "confirmation" /\ confirmation.success
                            \/ m = "admin" /\ notification.success},
          ready |-> conn.ready ]

\* submitContact, from the first checks to the response
submitContact(ctrl, plan, configured, ready, t, o) ==
    CASE plan.checks = "honeypot" -> EarlyOutcome(HoneypotResponse, ready)
      [] plan.checks = "invalid" -> EarlyOutcome(InvalidResponse, ready)
      [] plan.checks = "pass" -> processSubmission(ctrl, plan, configured, ready, t, o)


(***************************************************************************)
(* The routers of /api/contact and the middleware in front of the          *)
(* controller                                                              *)
(***************************************************************************)

\* the router files: routes/contact.js, the second routes/contact-debug.js, and
\* the plain router that mounts validateContact and submitContact alone
Routes == {"routesContact", "routesDebug", "routesPlain"}

\* the variants of middleware/validation.js
ValidationVariants == {"validationV1", "validationV2", "validationV3"}

\* validator.js escape: the replacement of one character (the grave accent,
\* which it also replaces, cannot be written in a string here and occurs in no
\* body of the model)
EscapeOf(c) ==
    CASE c = "&"  -> "&amp;"
      [] c = "\"" -> "&quot;"
      [] c = "'"  -> "&#x27;"
      [] c = "<"  -> "&lt;"
      [] c = ">"  -> "&gt;"
      [] c = "/"  -> "&#x2F;"
      [] c = "\\" -> "&#x5C;"
      [] OTHER    -> c

RECURSIVE EscapeRange(_, _, _)
\* the characters lo..hi of s, each replaced by EscapeOf
EscapeRange(s, lo, hi) ==
    IF lo > hi THEN ""
    ELSE IF lo = hi THEN EscapeOf(CharAt(s, lo))
    ELSE LET mid == (lo + hi) \div 2
         IN  EscapeRange(s, lo, mid) \o EscapeRange(s, mid + 1, hi)

\* .escape()
escape(s) == EscapeRange(s, 1, Len(s))

\* .normalizeEmail() on an address of a domain without rules of its own: lower case
normalizeEmail(s) == toLowerCase(s)

\* .isEmail(), on the addresses the model posts: a local part and a dotted
\* domain that ends in a label of letters
isEmail(s) == IsBasicEmail(s) /\ IsStrictEmail(toLowerCase(s))

\* the character class of the message rule: letters, digits, blanks and the
\* punctuation it lists (the grave accent apart)
IsMessageText(s) ==
    Len(s) > 0 /\ AllIn(s, UpperChars \cup LowerChars \cup DigitChars \cup SpaceChars
                             \cup {"-", "_", ".", ",", "!", "?", "(", ")", "@", "#", "$", "%",
                                   "^", "&", "*", "+", "=", "<", ">", "[", "]", "{", "}", ":",
                                   ";", "'", "\"", "\\", "|", "/", "~"})

\* the timestamp rule of validateContact; formTime is Date.now() - body.timestamp,
\* the time since the form was loaded
timestampValid(rules, formTime) ==
    CASE rules = "validationV1" -> formTime >= 2000 /\ formTime <= 3600000
      [] rules = "validationV2" -> formTime > 0 /\ formTime < 10000
      [] rules = "validationV3" -> TRUE

\* validateContact: the sanitizers run on every field, the last middleware
\* answers 400 when a rule has failed
validateContact(rules, body, formTime) ==
    LET name == trim(body.name)
        subject == trim(body.subject)
        message == trim(body.message)
        email == IF rules = "validationV3" THEN trim(body.email) ELSE body.email
        passes ==
            /\ Len(name) >= 2 /\ Len(name) <= 50
            /\ rules # "validationV2" => IsNameText(name)
            /\ isEmail(email) /\ Len(normalizeEmail(email)) <= 100
            /\ Len(subject) >= 5 /\ Len(subject) <= 100
            /\ rules = "validationV3" => IsSubjectText(subject)
            /\ Len(message) >= 10 /\ Len(message) <= 1000
            /\ rules = "validationV3" => IsMessageText(message)
            /\ Len(body.honeypot) <= 0
            /\ timestampValid(rules, formTime)
    IN  [ passes |-> passes,
          body |-> [ name |-> escape(name),
                     email |-> IF isEmail(email) THEN normalizeEmail(email) ELSE email,
                     subject |-> escape(subject),
                     message |-> escape(message),
                     honeypot |-> body.honeypot ] ]

\* enforceHoneypot: routes/contact.js also answers when Date.now() is less than
\* 1000 ms after req._startTime, which the logging middleware of the same
\* request has set; sinceStart is that difference
enforceHoneypot(router, body, sinceStart) ==
    LET hasHoneypotData ==
            IF router = "routesContact" THEN Len(trim(body.honeypot)) > 0
            ELSE Len(body.honeypot) > 0
        tooQuick == router = "routesContact" /\ sinceStart < 1000
    IN  hasHoneypotData \/ tooQuick

\* checkSubmissionEligibility: !email || !ipAddress or ipAddress === 'unknown'
checkSubmissionEligibility(body, ipAddress) ==
    Len(body.email) > 0 /\ Len(ipAddress) > 0 /\ ipAddress # "unknown"

\* validateRateLimit: windowMs and maxRequests
validateWindowMs == 900000

validateMaxRequests == 10

\* req.rateLimit of a request that no middleware has touched: undefined
NoRateLimit == [present |-> FALSE, times |-> <<>>]

\* validateRateLimit on a request whose req.rateLimit is rateLimitOfReq: whether
\* it answers 429, and req.rateLimit as it leaves it
validateRateLimit(rateLimitOfReq, t) ==
    LET requests == IF rateLimitOfReq.present THEN rateLimitOfReq.times ELSE <<>>
        Recent(time) == t - time < validateWindowMs
        recentRequests == SelectSeq(requests, Recent)
        limited == Len(recentRequests) >= validateMaxRequests
    IN  [ limited |-> limited,
          rateLimit |-> [ present |-> TRUE,
                          times |-> IF limited THEN requests ELSE Append(recentRequests, t) ] ]

\* the answers of the middleware
SilentResponse == [status |-> 200, success |-> TRUE]

TooManyResponse == [status |-> 429, success |-> FALSE]

\* POST /submit from its router to the controller's door: the middleware the
\* request passes, whether it reaches submitContact, the answer if it does not,
\* and the body the controller would read. limited: validateRateLimit answers
\* 429; checked: what validateContact makes of the body
submitRoute(router, body, ipAddress, limited, sinceStart, checked) ==
    LET guarded == router # "routesPlain"
        stopped == [reached |-> FALSE, body |-> body]
    IN  IF guarded /\ limited
        THEN stopped @@ [stages |-> <<>>, response |-> TooManyResponse]
        ELSE IF guarded /\ enforceHoneypot(router, body, sinceStart)
        THEN stopped @@ [stages |-> <<"validateRateLimit">>, response |-> SilentResponse]
        ELSE IF ~checked.passes
        THEN stopped @@ [stages |-> (IF guarded THEN <<"validateRateLimit", "enforceHoneypot">>
                                     ELSE <<>>),
                         response |-> InvalidResponse]
        ELSE IF guarded /\ ~checkSubmissionEligibility(checked.body, ipAddress)
        THEN stopped @@ [stages |-> <<"validateRateLimit", "enforceHoneypot", "validateContact">>,
                         response |-> InvalidResponse]
        ELSE [ reached |-> TRUE, body |-> checked.body,
               stages |-> (IF guarded
                           THEN <<"validateRateLimit", "enforceHoneypot", "validateContact",
                                  "checkSubmissionEligibility">>
                           ELSE <<"validateContact">>),
               response |-> [status |-> 0] ]


(***************************************************************************)
(* The state machine                                                       *)
(***************************************************************************)

VARIABLES
    contactVariant,   \* which models/Contact.js is deployed
    ctrlVariant,      \* which controllers/contactController.js is deployed
    isConfigured,     \* emailService.isConfigured
    readyState,       \* mongoose.connection.readyState (0 disconnected, 1 connected)
    now,              \* Date.now(), in milliseconds since the start
    store,            \* the contacts collection, a bag of documents
    req,              \* the request handled last: what came in, what was called, what went out
    scoreIn,          \* the argument of a direct call of calculateSpamScore
    scoreOut,         \* what it returned: <<>> before the call, <<score>> after it
    inflight          \* a checkSubmissionLimit whose two count queries are answered apart

\* what stands in front of the controller and beside it
VARIABLES
    route,            \* which router file serves /api/contact
    validation,       \* which middleware/validation.js is deployed
    pipe,             \* the POST /submit handled last: the middleware it passed, its answer
    passedAt          \* when validateRateLimit let a request of the sender pass, in order

\* the rate limiter that app.js puts in front of /api/
VARIABLES
    rateLimit,        \* the Map of app.js: the one client's entry, or none
    apiPassed,        \* how many requests of the client the limiter let pass, per moment
    apiRes            \* the status of the limiter's last answer: 0 none, 200 next(), 429

\* the connection helpers
VARIABLES
    db,               \* the DatabaseConnection of config/database.js and its connect() call
    ensure            \* the requests that run ensureDBConnection side by side

\* the state of the controller, the model and the store
core == <<contactVariant, ctrlVariant, isConfigured, readyState, now, store, req, scoreIn, scoreOut, inflight>>

\* the state of the routers and the middleware
aside == <<rateLimit, apiPassed, apiRes, db, ensure>>

outer == <<route, validation, pipe, passedAt, aside>>

vars == <<core, outer>>

\* the bounds of the model: documents in the collection while requests are
\* processed, documents in the limiter's history, steps of the clock
MaxStored == 2

MaxHistory == 5

MaxTicks == 1

\* milliseconds the clock advances past a step, and documents in the history
\* the window is let pass over
MaxMoments == 1

MaxWindow == 3

\* the clock advances a window at a time, so that a document is seen exactly one
\* window old and then older
ClockStep == DefaultTimeWindow

\* request bodies: clean ones from two senders, one with two links, one that is
\* plainly spam, one with the honeypot filled, one without a name, one that is not
\* sanitized (blanks around the fields, capitals in the address), one whose
\* address has no @
Submissions ==
    << [name |-> "Ann Lee", email |-> "ann@site.com", subject |-> "Project inquiry",
        message |-> "I would like to discuss a web project with you.", honeypot |-> ""],
       [name |-> "Bob Ray", email |-> "bob@site.com", subject |-> "Quick question",
        message |-> "Could you send me your rates for a small site?", honeypot |-> ""],
       [name |-> "Ann Lee", email |-> "ann@site.com", subject |-> "Two links here",
        message |-> "Please see http://a.io and http://b.io for details", honeypot |-> ""],
       [name |-> "Ann Lee", email |-> "ann@site.com", subject |-> "Offer",
        message |-> "FREE MONEY CLICK HERE http://x.com http://y.com http://z.com",
        honeypot |-> ""],
       [name |-> "Ann Lee", email |-> "ann@site.com", subject |-> "Project inquiry",
        message |-> "I would like to discuss a web project with you.", honeypot |-> "bot"],
       [name |-> "", email |-> "ann@site.com", subject |-> "Project inquiry",
        message |-> "I would like to discuss a web project with you.", honeypot |-> ""],
       [name |-> " Ann Lee", email |-> "Ann@Site.RU", subject |-> "Call me back",
        message |-> "This is urgent, please call me back today. ", honeypot |-> ""],
       [name |-> "Ann Lee", email |-> "ann.site.com", subject |-> "Project inquiry",
        message |-> "I would like to discuss a web project with you.", honeypot |-> ""] >>

\* the bodies posted while requests are processed: the clean one, the plain spam,
\* the honeypot, the missing name, the unsanitized one, the malformed address
RequestBodies == {1, 4, 5, 6, 7, 8}

\* the bodies the limiter's history is built from: the clean one, the one with
\* two links and the plain spam
HistoryBodies == {1, 3, 4}

ClientIps == {"10.0.0.1", "10.0.0.2"}

\* the address every submission comes from
SenderIp == "10.0.0.1"

QueryEmails == {"Ann@Site.com", "bob@site.com"}

\* what the collaborators of one request do
Outcomes ==
    [connect : BOOLEAN, save : {"ok", "error", "late"}, confirm : BOOLEAN, admin : BOOLEAN]

\* all collaborators work
AllWell == [connect |-> TRUE, save |-> "ok", confirm |-> TRUE, admin |-> TRUE]

\* requestPlan of every request the model posts
Plans ==
    [ ctrl \in ControllerVariants |->
        [ variant \in ContactVariants |->
            [ i \in DOMAIN Submissions |->
                requestPlan(ctrl, variant, Submissions[i], SenderIp) ] ] ]

NoRequest ==
    [ op |-> "none", at |-> 0, body |-> 0, email |-> "", ip |-> "", calls |-> <<>>,
      response |-> [status |-> 0], scored |-> FALSE, spamScore |-> 0, isSpam |-> FALSE,
      stored |-> FALSE, doc |-> Absent, mails |-> {}, limit |-> Absent,
      checkFailed |-> FALSE, overLimit |-> FALSE ]

\* an identity over the limit: 3 or more non-spam documents of the email, or 5
\* or more of the IP, in the trailing window
OverLimit(collection, email, ipAddress, t) ==
    \/ NonSpamSince(collection, "email", email, t - DefaultTimeWindow) >= 3
    \/ NonSpamSince(collection, "ipAddress", ipAddress, t - DefaultTimeWindow) >= 5

InitConfig ==
    /\ contactVariant \in ContactVariants
    /\ ctrlVariant \in ControllerVariants

\* no checkSubmissionLimit is between its two count queries
NoCheck ==
    [ active |-> FALSE, email |-> "", ip |-> "", at |-> 0, emailCount |-> 0,
      before |-> EmptyBag ]

\* no POST /submit has come through a router
NoPost ==
    [ body |-> 0, formTime |-> 0, stages |-> <<>>, reached |-> FALSE,
      response |-> [status |-> 0], stored |-> FALSE, mails |-> {},
      rateLimit |-> NoRateLimit ]

\* the moments at which the client of the /api/ limiter sends requests: ten
\* minutes apart, so that two moments next to each other are within one window
\* and the first and the third are not
ApiMoments == {0, 600000, 1200000}

\* app.js: windowMs and maxRequests of the /api/ limiter
apiWindowMs == 900000

apiMaxRequests == 100

\* rateLimit.has(ip) is false
NoEntry == [present |-> FALSE, count |-> 0, startTime |-> 0]

\* config/database.js: maxRetries
maxRetries == 5

\* new DatabaseConnection(), with MONGODB_URI set or not; no connect() has been
\* called (calls), none is running (calling), and attempts counts the
\* mongoose.connect calls of the call of connect() that ran last
NewDatabaseConnection(uri) ==
    [ uri |-> uri, isConnected |-> FALSE, retryCount |-> 0, calling |-> FALSE,
      attempts |-> 0, result |-> "none", calls |-> 0 ]

\* the requests that meet in ensureDBConnection
Requests == {"a", "b", "c"}

\* no request has called ensureDBConnection; seen: readyState when it saved
NoneEnsuring == [r \in Requests |-> [pc |-> "idle", seen |-> 0]]

\* app.js has started and no request has come to /api/
InitLimiter ==
    /\ rateLimit = NoEntry
    /\ apiPassed = [t \in ApiMoments |-> 0]
    /\ apiRes = 0

InitAside ==
    /\ InitLimiter
    /\ db = NewDatabaseConnection(TRUE)
    /\ ensure = NoneEnsuring

\* the controller is called directly, as in Spec: no router is in front of it
InitOuter ==
    /\ route = "none"
    /\ validation = "none"
    /\ pipe = NoPost
    /\ passedAt = <<>>
    /\ InitAside

InitCore ==
    /\ readyState = 0
    /\ now = 0
    /\ store = EmptyBag
    /\ req = NoRequest
    /\ inflight = NoCheck

InitServer ==
    /\ InitCore
    /\ InitOuter

NoScore ==
    /\ scoreIn = [name |-> "", email |-> "", subject |-> "", message |-> ""]
    /\ scoreOut = <<>>

Init ==
    /\ InitConfig
    /\ isConfigured \in BOOLEAN
    /\ InitServer
    /\ NoScore

\* submitContact on a request whose plan is given, from the request to the response
Controller(plan, i, o, cap) ==
    LET out == submitContact(ctrlVariant, plan, isConfigured, readyState, now, o)
    IN  /\ o.save = "late" => ctrlVariant = "ctrlV3"
        /\ out.stored => BagCardinality(store) < cap
        /\ store' = IF out.stored THEN store (+) SetToBag({out.doc}) ELSE store
        /\ readyState' = out.ready
        /\ req' = [ op |-> "submitContact", at |-> now, body |-> i, email |-> plan.data.email,
                    ip |-> SenderIp,
                    calls |-> out.calls, response |-> out.response,
                    scored |-> out.scored, spamScore |-> out.spamScore,
                    isSpam |-> out.isSpam, stored |-> out.stored, doc |-> out.doc,
                    mails |-> out.mails, limit |-> Absent, checkFailed |-> FALSE,
                    overLimit |-> OverLimit(store, plan.data.email, SenderIp, now) ]
        /\ UNCHANGED <<contactVariant, ctrlVariant, isConfigured, now, scoreIn, scoreOut, inflight>>

\* POST /submit handled by submitContact, called with the body as posted
SubmitContact(i, o, cap) ==
    /\ Controller(Plans[ctrlVariant][contactVariant][i], i, o, cap)
    /\ UNCHANGED outer

\* getSubmissionStats as it would be if the check pruned the collection it reads
GetSubmissionStatsWriting(email, ip, connects, queryFails) ==
    LET conn == IF ctrlVariant = "ctrlV3" THEN [connected |-> readyState = 1, ready |-> readyState]
                ELSE ensureDBConnection(readyState, connects)
        stats == checkSubmissionLimit(contactVariant, email, ip, DefaultTimeWindow,
                                      conn.ready, store, now, queryFails)
    IN  /\ readyState' = conn.ready
        /\ store' = EmptyBag
        /\ req' = [ NoRequest EXCEPT
                    !.op = "getSubmissionStats", !.at = now, !.email = email, !.ip = ip,
                    !.calls = (IF ctrlVariant = "ctrlV3" THEN <<>> ELSE <<"ensureDBConnection">>)
                              \o <<"checkSubmissionLimit">>,
                    !.response = [status |-> 200, success |-> TRUE,
                                  emailCount |-> stats.emailCount, ipCount |-> stats.ipCount,
                                  remaining |-> Max(0, 3 - stats.emailCount)],
                    !.limit = stats,
                    !.checkFailed = (conn.ready # 1 \/ queryFails) ]
        /\ UNCHANGED <<contactVariant, ctrlVariant, isConfigured, now, scoreIn, scoreOut, inflight, outer>>

\* GET /stats handled by getSubmissionStats, for a query that carries a well-formed
\* email and an IP address; connects: what ensureDBConnection meets; queryFails: a
\* count query rejects
GetSubmissionStats(email, ip, connects, queryFails) ==
    LET conn == IF ctrlVariant = "ctrlV3" THEN [connected |-> readyState = 1, ready |-> readyState]
                ELSE ensureDBConnection(readyState, connects)
        stats == checkSubmissionLimit(contactVariant, email, ip, DefaultTimeWindow,
                                      conn.ready, store, now, queryFails)
    IN  /\ readyState' = conn.ready
        /\ req' = [ NoRequest EXCEPT
                    !.op = "getSubmissionStats", !.at = now, !.email = email, !.ip = ip,
                    !.calls = (IF ctrlVariant = "ctrlV3" THEN <<>> ELSE <<"ensureDBConnection">>)
                              \o <<"checkSubmissionLimit">>,
                    !.response = [status |-> 200, success |-> TRUE,
                                  emailCount |-> stats.emailCount, ipCount |-> stats.ipCount,
                                  remaining |-> Max(0, 3 - stats.emailCount)],
                    !.limit = stats,
                    !.checkFailed = (conn.ready # 1 \/ queryFails) ]
        /\ UNCHANGED <<contactVariant, ctrlVariant, isConfigured, now, store, scoreIn, scoreOut, inflight, outer>>

\* variant 2: contact.markAsSpam() on a stored document; its save() runs the
\* pre-save hook with isSpam and status modified
MarkAsSpam(doc) ==
    LET marked == preSave(contactVariant,
                          [doc EXCEPT !.isSpam = TRUE, !.status = "archived"],
                          FALSE, {"isSpam", "status"})
    IN  /\ contactVariant = "contactV2"
        /\ readyState = 1
        /\ BagIn(doc, store)
        /\ marked # doc
        /\ store' = (store (-) SetToBag({doc})) (+) SetToBag({marked})
        /\ req' = [NoRequest EXCEPT !.op = "markAsSpam", !.at = now, !.doc = marked]
        /\ UNCHANGED <<contactVariant, ctrlVariant, isConfigured, readyState, now, scoreIn, scoreOut, inflight, outer>>

\* the 'connected' event of mongoose.connection (connectDB at start, or a reconnect)
Connected ==
    /\ readyState # 1
    /\ readyState' = 1
    /\ UNCHANGED <<contactVariant, ctrlVariant, isConfigured, now, store, req, scoreIn, scoreOut, inflight, outer>>

\* the 'disconnected' event of mongoose.connection
Disconnected ==
    /\ readyState = 1
    /\ readyState' = 0
    /\ UNCHANGED <<contactVariant, ctrlVariant, isConfigured, now, store, req, scoreIn, scoreOut, inflight, outer>>

\* time passes
Tick ==
    /\ now < MaxTicks * ClockStep
    /\ now' = now + ClockStep
    /\ UNCHANGED <<contactVariant, ctrlVariant, isConfigured, readyState, store, req, scoreIn, scoreOut, inflight, outer>>

Next ==
    \/ \E i \in RequestBodies, o \in Outcomes : SubmitContact(i, o, MaxStored)
    \/ \E email \in QueryEmails, connects \in BOOLEAN, queryFails \in BOOLEAN :
          GetSubmissionStats(email, SenderIp, connects, queryFails)
    \/ \E doc \in BagToSet(store) : MarkAsSpam(doc)
    \/ Connected
    \/ Disconnected

Spec == Init /\ [][Next]_vars

\* the limiter against a history of submissions: every collaborator of a
\* submission works, time passes, and the history grows to MaxHistory documents
InitLimit ==
    /\ InitConfig
    /\ isConfigured = TRUE
    /\ InitServer
    /\ NoScore

NextLimit ==
    \/ \E i \in HistoryBodies : SubmitContact(i, AllWell, MaxHistory)
    \/ \E email \in QueryEmails, ip \in ClientIps :
          GetSubmissionStats(email, ip, TRUE, FALSE)
    \/ Connected
    \/ Tick

SpecLimit == InitLimit /\ [][NextLimit]_vars

\* a millisecond passes
Moment ==
    /\ now % ClockStep < MaxMoments
    /\ now' = now + 1
    /\ UNCHANGED <<contactVariant, ctrlVariant, isConfigured, readyState, store, req, scoreIn, scoreOut, inflight, outer>>

\* the bodies the window passes over: the clean one and the plain spam
WindowBodies == {1, 4}

\* the window passing over a history: the controller that stores every
\* submission it scores builds the history, and the clock advances by a window
\* and by a millisecond, so that a document is seen one window old and then older
InitWindow ==
    /\ contactVariant \in ContactVariants
    /\ ctrlVariant = "ctrlV2"
    /\ isConfigured = TRUE
    /\ InitServer
    /\ NoScore

NextWindow ==
    \/ \E i \in WindowBodies : SubmitContact(i, AllWell, MaxWindow)
    \/ \E email \in QueryEmails, ip \in ClientIps :
          GetSubmissionStats(email, ip, TRUE, FALSE)
    \/ Tick
    \/ Moment

SpecWindow == InitWindow /\ [][NextWindow]_vars


\* Contact.checkSubmissionLimit(email, ipAddress) called with the connection
\* ready: timeAgo is taken, both count queries are sent, and the email count is
\* answered from the collection as it is now
BeginCheck(email, ipAddress) ==
    /\ ~inflight.active
    /\ readyState = 1
    /\ inflight' = [ active |-> TRUE, email |-> email, ip |-> ipAddress, at |-> now,
                     emailCount |-> checkSubmissionLimit(contactVariant, email, ipAddress,
                                        DefaultTimeWindow, 1, store, now, FALSE).emailCount,
                     before |-> store ]
    /\ UNCHANGED <<contactVariant, ctrlVariant, isConfigured, readyState, now, store, req, scoreIn, scoreOut, outer>>

\* the IP count is answered from the collection as it is by then, Promise.all
\* resolves and the call returns the two counts
EndCheck ==
    LET ipCount == checkSubmissionLimit(contactVariant, inflight.email, inflight.ip,
                       DefaultTimeWindow, 1, store, inflight.at, FALSE).ipCount
    IN  /\ inflight.active
        /\ inflight' = [inflight EXCEPT !.active = FALSE]
        /\ req' = [ NoRequest EXCEPT
                    !.op = "checkSubmissionLimit", !.at = inflight.at,
                    !.email = inflight.email, !.ip = inflight.ip,
                    !.calls = <<"checkSubmissionLimit">>,
                    !.limit = [emailCount |-> inflight.emailCount, ipCount |-> ipCount] ]
        /\ UNCHANGED <<contactVariant, ctrlVariant, isConfigured, readyState, now, store, scoreIn, scoreOut, outer>>

\* the bodies saved while a check is in flight: Ann's and Bob's clean ones
RaceBodies == {1, 2}

\* submissions saved between the two count queries of a check
InitRace ==
    /\ contactVariant \in ContactVariants
    /\ ctrlVariant \in ControllerVariants
    /\ isConfigured = TRUE
    /\ InitServer
    /\ NoScore

NextRace ==
    \/ \E i \in RaceBodies : SubmitContact(i, AllWell, MaxStored)
    \/ \E email \in QueryEmails : BeginCheck(email, SenderIp)
    \/ EndCheck
    \/ Connected

SpecRace == InitRace /\ [][NextRace]_vars

\* the bodies posted through the routers: the clean one, the plain spam, the
\* honeypot, the unsanitized one, the malformed address
RouteBodies == {1, 4, 5, 7, 8}

\* the time between the logging middleware and enforceHoneypot of one request,
\* in milliseconds: both run in the same turn of the event loop
SinceStarts == {0, 1}

\* the time the sender took to fill the form, in milliseconds
FormTimes == {500, 5000}

\* a router with a validation.js that exports what the router imports:
\* validateRateLimit is exported by variant 3 alone
Deployments ==
    { <<"routesContact", "validationV3">>, <<"routesDebug", "validationV3">>,
      <<"routesPlain", "validationV1">>, <<"routesPlain", "validationV2">>,
      <<"routesPlain", "validationV3">> }

\* validateContact of every request the model posts through a router
Checks ==
    [ v \in ValidationVariants |->
        [ i \in RouteBodies |->
            [ formTime \in FormTimes |-> validateContact(v, Submissions[i], formTime) ] ] ]

\* the bodies validateContact hands on, which do not depend on the timestamp
Validated ==
    [ v \in ValidationVariants |->
        [ i \in RouteBodies |-> validateContact(v, Submissions[i], 0).body ] ]

\* requestPlan of every body as validateContact hands it to the controller
RoutePlans ==
    [ v \in ValidationVariants |->
        [ ctrl \in ControllerVariants |->
            [ variant \in ContactVariants |->
                [ i \in RouteBodies |->
                    requestPlan(ctrl, variant, Validated[v][i], SenderIp) ] ] ] ]

\* POST /submit through the router: the middleware in their order, and
\* submitContact when the request reaches it. Each request object is new, so
\* validateRateLimit finds req.rateLimit undefined
PostSubmit(i, sinceStart, formTime, o, cap, logCap) ==
    LET guarded == route # "routesPlain"
        limit == validateRateLimit(NoRateLimit, now)
        r == submitRoute(route, Submissions[i], SenderIp, limit.limited, sinceStart,
                         Checks[validation][i][formTime])
        passes == guarded /\ ~limit.limited
    IN  /\ passes => Len(passedAt) < logCap
        /\ IF r.reached
           THEN Controller(RoutePlans[validation][ctrlVariant][contactVariant][i], i, o, cap)
           ELSE UNCHANGED core
        /\ pipe' = [ body |-> i, formTime |-> formTime, stages |-> r.stages,
                     reached |-> r.reached,
                     response |-> IF r.reached THEN req'.response ELSE r.response,
                     stored |-> r.reached /\ req'.stored,
                     mails |-> IF r.reached THEN req'.mails ELSE {},
                     rateLimit |-> IF guarded THEN limit.rateLimit ELSE NoRateLimit ]
        /\ passedAt' = IF passes THEN Append(passedAt, now) ELSE passedAt
        /\ UNCHANGED <<route, validation, aside>>

\* the requests the pipeline specification lets pass validateRateLimit
MaxPosts == 2

InitRoute ==
    /\ InitConfig
    /\ isConfigured = TRUE
    /\ InitCore
    /\ NoScore
    /\ \E d \in Deployments : route = d[1] /\ validation = d[2]
    /\ pipe = NoPost
    /\ passedAt = <<>>
    /\ InitAside

NextRoute ==
    \/ \E i \in RouteBodies, sinceStart \in SinceStarts, formTime \in FormTimes :
          PostSubmit(i, sinceStart, formTime, AllWell, MaxStored, MaxPosts)
    \/ Connected

SpecRoute == InitRoute /\ [][NextRoute]_vars

\* the requests of one sender that the flood specification lets pass
\* validateRateLimit: one more than maxRequests
MaxPasses == 11

FloodBodies == {1, 5}

\* one sender posts again and again to a router that has validateRateLimit
InitFlood ==
    /\ InitConfig
    /\ isConfigured = TRUE
    /\ InitCore
    /\ NoScore
    /\ route \in {"routesContact", "routesDebug"}
    /\ validation = "validationV3"
    /\ pipe = NoPost
    /\ passedAt = <<>>
    /\ InitAside

NextFlood ==
    \/ \E i \in FloodBodies, sinceStart \in SinceStarts :
          PostSubmit(i, sinceStart, 5000, AllWell, MaxStored, MaxPasses)
    \/ Connected

SpecFlood == InitFlood /\ [][NextFlood]_vars

\* the requests of the client that the limiter specification lets pass
MaxApiPasses == 102

\* what the /api/ middleware does with the client's entry at time t: the entry
\* as it leaves it, and whether it calls next()
apiLimiter(entry, t) ==
    IF ~entry.present
    THEN [entry |-> [present |-> TRUE, count |-> 1, startTime |-> t], next |-> TRUE]
    ELSE IF t - entry.startTime > apiWindowMs
    THEN [entry |-> [entry EXCEPT !.count = 1, !.startTime = t], next |-> TRUE]
    ELSE IF entry.count >= apiMaxRequests
    THEN [entry |-> entry, next |-> FALSE]
    ELSE [entry |-> [entry EXCEPT !.count = @ + 1], next |-> TRUE]

\* the number of requests the limiter has let pass
ApiTotal(passed) ==
    LET RECURSIVE Sum(_)
        Sum(S) == IF S = {} THEN 0
                  ELSE LET t == CHOOSE x \in S : TRUE IN passed[t] + Sum(S \ {t})
    IN  Sum(DOMAIN passed)

\* a request of the client to a path under /api/
ApiRequest(cap) ==
    LET r == apiLimiter(rateLimit, now)
    IN  /\ now \in ApiMoments
        /\ r.next => ApiTotal(apiPassed) < cap
        /\ rateLimit' = r.entry
        /\ apiPassed' = IF r.next THEN [apiPassed EXCEPT ![now] = @ + 1] ELSE apiPassed
        /\ apiRes' = IF r.next THEN 200 ELSE 429
        /\ UNCHANGED <<core, route, validation, pipe, passedAt, db, ensure>>

\* the setInterval callback of app.js
ApiCleanup ==
    /\ rateLimit.present
    /\ now - rateLimit.startTime > apiWindowMs
    /\ rateLimit' = NoEntry
    /\ UNCHANGED <<core, route, validation, pipe, passedAt, apiPassed, apiRes, db, ensure>>

\* time passes to the client's next moment
ApiTick ==
    /\ \E t \in ApiMoments : t > now
    /\ now' = CHOOSE t \in ApiMoments : t > now /\ \A u \in ApiMoments : u > now => t <= u
    /\ UNCHANGED <<contactVariant, ctrlVariant, isConfigured, readyState, store, req, scoreIn, scoreOut, inflight, outer>>

InitApi ==
    /\ contactVariant = "contactV1"
    /\ ctrlVariant = "ctrlV1"
    /\ isConfigured = TRUE
    /\ InitServer
    /\ NoScore

NextApi ==
    \/ ApiRequest(MaxApiPasses)
    \/ ApiCleanup
    \/ ApiTick

SpecApi == InitApi /\ [][NextApi]_vars

\* the calls of connect() the database specification makes
MaxCalls == 5

\* what is not the DatabaseConnection
besideDb == <<core, route, validation, pipe, passedAt, rateLimit, apiPassed, apiRes, ensure>>

\* connect() is called while no call of it is running: the existing connection
\* is returned, or the missing URI is thrown, or the attempts begin
DbConnect(cap) ==
    /\ ~db.calling
    /\ db.calls < cap
    /\ db' = IF db.isConnected
             THEN [db EXCEPT !.calls = @ + 1, !.attempts = 0, !.result = "connection"]
             ELSE IF ~db.uri
             THEN [db EXCEPT !.calls = @ + 1, !.attempts = 0, !.result = "thrown"]
             ELSE [db EXCEPT !.calls = @ + 1, !.attempts = 0, !.result = "none", !.calling = TRUE]
    /\ UNCHANGED besideDb

\* one try block of connect(): mongoose.connect resolves (connects) or rejects,
\* and the catch block retries after retryDelay or throws
DbAttempt(connects) ==
    /\ db.calling
    /\ db' = IF connects
             THEN [db EXCEPT !.attempts = @ + 1, !.isConnected = TRUE, !.retryCount = 0,
                             !.calling = FALSE, !.result = "connection"]
             ELSE IF db.retryCount + 1 <= maxRetries
             THEN [db EXCEPT !.attempts = @ + 1, !.retryCount = @ + 1]
             ELSE [db EXCEPT !.attempts = @ + 1, !.retryCount = @ + 1,
                             !.calling = FALSE, !.result = "thrown"]
    /\ UNCHANGED besideDb

\* the 'disconnected' event handler that setupEventHandlers installed
DbDisconnected ==
    /\ db.isConnected
    /\ db' = [db EXCEPT !.isConnected = FALSE]
    /\ UNCHANGED besideDb

InitDatabase ==
    /\ contactVariant = "contactV1"
    /\ ctrlVariant = "ctrlV1"
    /\ isConfigured = TRUE
    /\ InitCore
    /\ NoScore
    /\ route = "none"
    /\ validation = "none"
    /\ pipe = NoPost
    /\ passedAt = <<>>
    /\ InitLimiter
    /\ \E uri \in BOOLEAN : db = NewDatabaseConnection(uri)
    /\ ensure = NoneEnsuring

NextDatabase ==
    \/ DbConnect(MaxCalls)
    \/ \E connects \in BOOLEAN : DbAttempt(connects)
    \/ DbDisconnected

SpecDatabase == InitDatabase /\ [][NextDatabase]_vars

\* what ensureDBConnection and the requests beside it leave alone
besideEnsure ==
    <<contactVariant, ctrlVariant, isConfigured, now, store, req, scoreIn, scoreOut, inflight,
      route, validation, pipe, passedAt, rateLimit, apiPassed, apiRes, db>>

\* the requests at a place of ensureDBConnection
At(pc) == {r \in Requests : ensure[r].pc = pc}

\* request r enters ensureDBConnection: true at once on readyState 1 (and the
\* handler goes on to its save in the same turn); on readyState 0 it calls
\* mongoose.connect; on any other state it calls mongoose.connection.close()
\* first, which in the state 'connecting' waits for the connection to open
EnsureEnter(r) ==
    /\ ensure[r].pc = "idle"
    /\ ensure' = [ensure EXCEPT ![r] =
                     IF readyState = 1 THEN [pc |-> "saved", seen |-> 1]
                     ELSE IF readyState = 0 THEN [pc |-> "connecting", seen |-> 0]
                     ELSE [pc |-> "closing", seen |-> 0]]
    /\ readyState' = IF readyState = 0 THEN 2 ELSE readyState
    /\ UNCHANGED besideEnsure

\* the connection that is being established opens: a close() that waited for it
\* starts at once (readyState 3), and then the requests that awaited
\* mongoose.connect return true and go on to save their records
ConnectionOpens ==
    /\ readyState = 2
    /\ At("connecting") # {}
    /\ readyState' = IF At("closing") # {} THEN 3 ELSE 1
    /\ ensure' = [r \in Requests |->
                     IF ensure[r].pc = "connecting"
                     THEN [pc |-> "saved", seen |-> readyState']
                     ELSE ensure[r]]
    /\ UNCHANGED besideEnsure

\* the connection cannot be established: mongoose.connect rejects, the requests
\* that awaited it return false
ConnectionFails ==
    /\ readyState = 2
    /\ At("connecting") # {}
    /\ readyState' = 0
    /\ ensure' = [r \in Requests |->
                     IF ensure[r].pc = "connecting"
                     THEN [pc |-> "refused", seen |-> 0]
                     ELSE ensure[r]]
    /\ UNCHANGED besideEnsure

\* the close() calls end (readyState 0), and the requests that awaited them call
\* mongoose.connect in the same turn
CloseEnds ==
    /\ readyState = 3
    /\ At("closing") # {}
    /\ readyState' = 2
    /\ ensure' = [r \in Requests |->
                     IF ensure[r].pc = "closing"
                     THEN [pc |-> "connecting", seen |-> 0]
                     ELSE ensure[r]]
    /\ UNCHANGED besideEnsure

InitEnsure ==
    /\ InitConfig
    /\ isConfigured \in BOOLEAN
    /\ InitServer
    /\ NoScore

NextEnsure ==
    \/ \E r \in Requests : EnsureEnter(r)
    \/ ConnectionOpens
    \/ ConnectionFails
    \/ CloseEnds
    \/ Disconnected

SpecEnsure == InitEnsure /\ [][NextEnsure]_vars

\* the scorer called directly, on fields drawn from ScoreInputs
ScoreNames == {"", "Ann Lee", "ann"}

ScoreEmails == {"", "ann@site.com", "x12345@mail.ru"}

ScoreSubjects == {"", "Offer", "FREE MONEY"}

ScoreMessages ==
    { "",
      "I would like to discuss a web project with you.",
      "FREE MONEY CLICK HERE http://x.com http://y.com http://z.com",
      "http://a http://b http://c http://d http://e http://f",
      "WIN!!!!!! a casino prize URGENT",
      "FREE" }

ScoreInputs ==
    [name : ScoreNames, email : ScoreEmails, subject : ScoreSubjects, message : ScoreMessages]

InitScore ==
    /\ contactVariant \in ContactVariants
    /\ ctrlVariant = "ctrlV1"
    /\ isConfigured = TRUE
    /\ InitServer
    /\ scoreIn \in ScoreInputs
    /\ scoreOut = <<>>

\* Contact.calculateSpamScore(scoreIn)
Score ==
    /\ scoreOut = <<>>
    /\ scoreOut' = <<calculateSpamScore(contactVariant, scoreIn)>>
    /\ UNCHANGED <<contactVariant, ctrlVariant, isConfigured, readyState, now, store, req, scoreIn, inflight, outer>>

NextScore == Score

SpecScore == InitScore /\ [][NextScore]_vars

(***************************************************************************)
(* The properties                                                          *)
(***************************************************************************)

\* the request handled last is a submission that passed the first checks
Processed == req.op = "submitContact" /\ req.scored

\* the request handled last is a getSubmissionStats whose limiter check
\* succeeded (the connection was ready and the count queries answered)
Checked == req.op = "getSubmissionStats" /\ ~req.checkFailed

\* the request handled last is a getSubmissionStats whose limiter check failed
Failed == req.op = "getSubmissionStats" /\ req.checkFailed

\* the limiter of the deployed variant queries the recent-spam count
HasSpamSignal == contactVariant \in {"contactV2", "contactV3"}

\* the calls of the request handled last that went to the email service
EmailCalls ==
    {req.calls[k] : k \in DOMAIN req.calls} \cap {"sendConfirmationEmail", "sendAdminNotification"}

\* C1: every score calculateSpamScore returns is an integer from 0 to 10
C1_ScoreInRange ==
    \A k \in DOMAIN scoreOut : scoreOut[k] \in 0..10

\* C2: a submission that is processed has the limiter called before the scorer,
\* and the save and the emails come after both
C2_LimiterBeforeScorer ==
    Processed =>
        \E l, c \in DOMAIN req.calls :
            /\ req.calls[l] = "checkSubmissionLimit"
            /\ req.calls[c] = "calculateSpamScore"
            /\ l < c
            /\ \A k \in DOMAIN req.calls :
                  req.calls[k] \in {"save", "sendConfirmationEmail", "sendAdminNotification"}
                      => c < k

\* C3: a submission whose identity is over the limit when it is handled is
\* not stored and no email is sent for it
C3_OverLimitNotPermitted ==
    (req.op = "submitContact" /\ req.overLimit) => (~req.stored /\ req.mails = {})

\* C4: a limiter check that succeeded says isOverLimit when emailCount >= 3,
\* says it when ipCount >= 5 whatever emailCount is, and does not say it when
\* emailCount < 3, ipCount < 5 and the identity has no recent spam document
C4_LimitDecision ==
    Checked =>
        /\ req.limit.emailCount >= 3 => req.limit.isOverLimit
        /\ req.limit.ipCount >= 5 => req.limit.isOverLimit
        /\ ( /\ req.limit.emailCount < 3
             /\ req.limit.ipCount < 5
             /\ SpamSince(store, toLowerCase(req.email), req.ip, req.at - DefaultTimeWindow) = 0 )
              => ~req.limit.isOverLimit

\* C4: the check of an identity whose IP has 5 documents and whose email has
\* fewer than 3 has succeeded
C4_Witness ==
    /\ Checked
    /\ req.limit.ipCount >= 5
    /\ req.limit.emailCount < 3
    /\ req.limit.isOverLimit

\* C5: a limiter that queries the recent-spam count says isOverLimit whenever
\* that count is 2 or more
C5_RecentSpamDecision ==
    (Checked /\ HasSpamSignal) =>
        (req.limit.recentSpamCount >= 2 => req.limit.isOverLimit)

\* C6: a limiter check that failed (connection not ready, query error or
\* timeout) says isOverLimit
C6_FailClosed ==
    Failed => req.limit.isOverLimit

\* C7: the result of a limiter check that failed differs from the result of a
\* check that succeeded and found no document
C7_FailureFlagged ==
    Failed =>
        req.limit # checkSubmissionLimit(contactVariant, req.email, req.ip, DefaultTimeWindow,
                                         1, EmptyBag, req.at, FALSE)

\* C8: isSpam is (spamScore >= 5) in every verdict submitContact returns and in
\* every document of the collection
C8_ThresholdConsistency ==
    /\ Processed => (req.isSpam <=> req.spamScore >= 5)
    /\ \A d \in BagToSet(store) : d.isSpam <=> d.spamScore >= 5

\* C9: a processed submission with a spam verdict (score >= 5) has neither
\* sendConfirmationEmail nor sendAdminNotification called, and one without has both
C9_VerdictGatesEmail ==
    Processed =>
        /\ req.spamScore >= 5 => EmailCalls = {}
        /\ req.spamScore < 5 => EmailCalls = {"sendConfirmationEmail", "sendAdminNotification"}

\* C9: a submission with a spam verdict that was stored has been handled
C9_Witness ==
    /\ Processed
    /\ req.spamScore >= 5
    /\ req.stored
    /\ EmailCalls = {}

\* C10: the counts of a limiter check that succeeded are the numbers of
\* documents of the email and of the IP in the window whose isSpam is false
C10_CountsNonSpam ==
    Checked =>
        /\ req.limit.emailCount =
              NonSpamSince(store, "email", toLowerCase(req.email), req.at - DefaultTimeWindow)
        /\ req.limit.ipCount =
              NonSpamSince(store, "ipAddress", req.ip, req.at - DefaultTimeWindow)

\* the documents of the collection created at most a window before t
Recent(collection, t) ==
    [d \in {x \in BagToSet(collection) : t - x.createdAt <= DefaultTimeWindow}
        |-> CopiesIn(d, collection)]

\* the documents of the collection that carry the email or the IP address
OfIdentity(collection, email, ipAddress) ==
    {d \in BagToSet(collection) : d.email = email \/ d.ipAddress = ipAddress}

\* C11: a limiter check that succeeded gives what it would give on the documents
\* created at most a window before the call alone, and it does not say
\* isOverLimit for an identity whose documents are all older than the window
C11_WindowExpiry ==
    Checked =>
        /\ req.limit = checkSubmissionLimit(contactVariant, req.email, req.ip, DefaultTimeWindow,
                                            1, Recent(store, req.at), req.at, FALSE)
        /\ (\A d \in OfIdentity(store, toLowerCase(req.email), req.ip) :
                req.at - d.createdAt > DefaultTimeWindow)
              => ~req.limit.isOverLimit

\* C11: an identity with 3 documents that are not spam, all older than the
\* window, has been checked and is not over the limit
C11_Witness ==
    /\ Checked
    /\ NonSpamSince(store, "email", toLowerCase(req.email), 0) >= 3
    /\ \A d \in OfIdentity(store, toLowerCase(req.email), req.ip) :
          req.at - d.createdAt > DefaultTimeWindow
    /\ req.limit.emailCount = 0
    /\ ~req.limit.isOverLimit

\* the collections between two: every bag that holds all of the earlier one and
\* nothing beyond the later one
Between(earlier, later) == {b \in SubBag(later) : earlier \sqsubseteq b}

\* C12: the pair of counts a checkSubmissionLimit returns equals the numbers of
\* matching documents in the collection at one moment of the call (the
\* collection as it was when the call began, as it is when the call returns, or
\* as it was after any of the saves in between), and both counts are
\* non-negative integers
C12_CountsAtOneMoment ==
    (req.op = "checkSubmissionLimit" /\ ~inflight.active) =>
        /\ req.limit.emailCount \in Nat
        /\ req.limit.ipCount \in Nat
        /\ \E b \in Between(inflight.before, store) :
              LET counts == checkSubmissionLimit(contactVariant, req.email, req.ip,
                                DefaultTimeWindow, 1, b, req.at, FALSE)
              IN  /\ req.limit.emailCount = counts.emailCount
                  /\ req.limit.ipCount = counts.ipCount

\* C13: checkSubmissionLimit never writes: a step after which the request
\* handled last is a limiter check, whether the check succeeded or failed, has
\* left the collection as it was, the same documents with the same fields
C13_ReadOnly ==
    [][req'.op = "getSubmissionStats" => store' = store]_vars

\* a check that read matching documents has answered
C13_Witness ==
    /\ Checked
    /\ req.limit.emailCount >= 1
    /\ store # EmptyBag

\* the fields of a persisted document that the lifecycle never lets change,
\* with the two that tell one document from another
Frozen(d) ==
    [ name |-> d.name, email |-> d.email, subject |-> d.subject, message |-> d.message,
      spamScore |-> d.spamScore, isSpam |-> d.isSpam,
      ipAddress |-> d.ipAddress, createdAt |-> d.createdAt ]

\* the place of a status in pending -> reviewed -> replied -> archived
StatusRank(status) ==
    CASE status = "pending"  -> 1
      [] status = "reviewed" -> 2
      [] status = "replied"  -> 3
      [] status = "archived" -> 4
      [] OTHER               -> 0

\* the documents of a collection that are d, or d with its status moved forward
Kept(d, collection) ==
    countDocuments(collection,
        {e \in BagToSet(collection) :
            Frozen(e) = Frozen(d) /\ StatusRank(e.status) >= StatusRank(d.status)})

\* C14: a persisted document keeps its name, email, subject, message, spamScore
\* and isSpam through every operation, and its status only moves forward along
\* pending -> reviewed -> replied -> archived: no step leaves fewer documents
\* that agree with a stored one on those fields at the same or a later status
C14_PersistedImmutable ==
    [][\A d \in BagToSet(store) : Kept(d, store') >= Kept(d, store)]_vars

\* the four required fields are non-empty after trimming and the email matches
\* the basic address pattern
WellFormed(body) ==
    /\ Len(trim(body.name)) > 0
    /\ Len(trim(body.email)) > 0
    /\ Len(trim(body.subject)) > 0
    /\ Len(trim(body.message)) > 0
    /\ IsBasicEmail(body.email)

\* C15: submitContact scores, stores or sends an email only for a submission
\* whose four fields are non-empty after trimming and whose email matches the
\* basic address pattern; any other submission is answered 400, and nothing is
\* stored or sent for it
C15_OnlyWellFormedHandled ==
    req.op = "submitContact" =>
        /\ (req.scored \/ req.stored \/ req.mails # {}) => WellFormed(Submissions[req.body])
        /\ ~WellFormed(Submissions[req.body]) =>
              /\ req.response.status = 400
              /\ ~req.stored
              /\ req.mails = {}

\* the call of the scorer has returned
Scored == scoreOut # <<>>

\* the input whose four fields are the empty string
EmptyInput == [name |-> "", email |-> "", subject |-> "", message |-> ""]

\* C16: calculateSpamScore called with name, email, subject and message all
\* the empty string returns 0
C16_EmptyScoresZero ==
    (Scored /\ scoreIn = EmptyInput) => scoreOut[1] = 0

\* keywords that every variant of the scorer lists
AddedKeywords == {"free", "money", "urgent"}

\* the input with one more occurrence of a keyword in its message
WithKeyword(data, keyword) == [data EXCEPT !.message = @ \o " " \o keyword]

\* C17: adding one more occurrence of a listed keyword to the message never
\* yields a lower score than the score before the addition
C17_Monotone ==
    Scored =>
        \A keyword \in AddedKeywords :
            calculateSpamScore(contactVariant, WithKeyword(scoreIn, keyword)) >= scoreOut[1]

\* the input with every field in lower case
LowerCased(data) ==
    [ name |-> toLowerCase(data.name), email |-> toLowerCase(data.email),
      subject |-> toLowerCase(data.subject), message |-> toLowerCase(data.message) ]

\* C18: a second call of calculateSpamScore with the same fields returns the
\* same score, and so does a call with fields that differ from them only in
\* letter case
C18_CaseBlind ==
    Scored =>
        /\ calculateSpamScore(contactVariant, scoreIn) = scoreOut[1]
        /\ calculateSpamScore(contactVariant, LowerCased(scoreIn)) = scoreOut[1]

\* C19: the URL step adds min(k * perUrlPoints, 6) for the k URLs of the
\* message, with perUrlPoints a fixed 2 or 3
C19_UrlPointsCapped ==
    Scored =>
        \E perUrlPoints \in 2..3 :
            urlPoints(contactVariant, scoreIn) = Min(UrlCount(scoreIn.message) * perUrlPoints, 6)

\* the categories of suspiciousPatterns that match the text
MatchingCategories(text) ==
    {i \in 1..Len(suspiciousPatterns) : MatchLength(text, suspiciousPatterns[i]) > 0}

\* the occurrences in the text of the keywords of a category: which keyword, where
Occurrences(text, i) ==
    {<<a, at>> \in (1..Len(suspiciousPatterns[i].alts)) \X (1..Len(text)) :
        LET k == suspiciousPatterns[i].alts[a]
        IN  /\ at + Len(k) - 1 <= Len(text)
            /\ SubSeq(text, at, at + Len(k) - 1) = k
            /\ (at = 1 \/ ~IsWordChar(CharAt(text, at - 1)))
            /\ (at + Len(k) - 1 = Len(text) \/ ~IsWordChar(CharAt(text, at + Len(k))))}

\* the text the weighted-pattern scorer matches on
CombinedText == toLowerCase(scoreIn.message \o " " \o scoreIn.subject)

\* C20: in the weighted-pattern scorer (variant 2) every listed weight is from
\* 1 to 5, and a text with a single occurrence of a keyword of exactly one
\* category has exactly that category's weight added by the keyword step
C20_CategoryWeight ==
    (Scored /\ contactVariant = "contactV2") =>
        /\ \A i \in 1..Len(suspiciousPatterns) : suspiciousPatterns[i].weight \in 1..5
        /\ \A i \in 1..Len(suspiciousPatterns) :
              (MatchingCategories(CombinedText) = {i}
                  /\ Cardinality(Occurrences(CombinedText, i)) = 1)
                  => PatternScore(CombinedText, 1) = suspiciousPatterns[i].weight

\* a word is written in capitals: it has no lower-case letter
InCapitals(word) == \A i \in 1..Len(word) : ~(CharAt(word, i) \in LowerChars)

\* the scenario: the words of the message that are not links are in capitals,
\* the message has three links, and at least two listed keywords occur in it
InScenario(body) ==
    LET words == split(body.message, " ")
    IN  /\ \A k \in 1..Len(words) : UrlAt(words[k], 1) \/ InCapitals(words[k])
        /\ CapitalCount(body.message) > 0
        /\ UrlCount(body.message) = 3
        /\ KeywordHits(toLowerCase(body.message), suspiciousKeywordsV1) >= 2

\* a POST /submit has come through the router
Posted == pipe.body # 0

\* the middleware the request handled last has passed
PassedStages == {pipe.stages[k] : k \in DOMAIN pipe.stages}

\* C21: a submission in the scenario (capitals, three links, two or more listed
\* keywords) that reaches submitContact and is processed gets a score of at
\* least the threshold 5 and within 2 of the cap 10 or above, and is flagged
\* spam, in the verdict and in the document if one is stored
C21_ScenarioFlagged ==
    (Posted /\ pipe.reached /\ Processed /\ InScenario(Submissions[pipe.body])) =>
        /\ req.spamScore >= SpamThreshold
        /\ req.spamScore + 2 >= 10
        /\ req.isSpam
        /\ req.stored => req.doc.isSpam

\* the request had every honeypot field empty
HoneypotEmpty == Len(Submissions[pipe.body].honeypot) = 0

\* enforceHoneypot answered the request
StoppedByHoneypot ==
    /\ ~pipe.reached
    /\ pipe.stages = <<"validateRateLimit">>
    /\ pipe.response = SilentResponse

\* C22: in the routes/contact.js pipeline a request with every honeypot field
\* empty, sent a second or more after the form was loaded, passes
\* enforceHoneypot, and reaches submitContact when it is valid; enforceHoneypot
\* answers its silent 200 only to a request with a honeypot field filled or a
\* form submitted in under 1 second
C22_HoneypotPassesClean ==
    (Posted /\ route = "routesContact") =>
        /\ (HoneypotEmpty /\ pipe.formTime >= 1000) => "enforceHoneypot" \in PassedStages
        /\ (HoneypotEmpty /\ pipe.formTime >= 1000
               /\ Checks[validation][pipe.body][pipe.formTime].passes) => pipe.reached
        /\ StoppedByHoneypot => (~HoneypotEmpty \/ pipe.formTime < 1000)

\* C23: a submission with a filled honeypot field is answered 200 with
\* success = true, and nothing is stored and no email is sent for it, whichever
\* router it came through
C23_HoneypotSilent ==
    (Posted /\ ~HoneypotEmpty) =>
        /\ pipe.response.status = 200
        /\ pipe.response.success
        /\ ~pipe.stored
        /\ pipe.mails = {}

\* the requests up to the k-th that passed validateRateLimit less than windowMs
\* before the k-th did
PassedInWindow(k) ==
    {j \in 1..k : passedAt[k] - passedAt[j] < validateWindowMs}

\* C24: of the requests of one IP, at most maxRequests (10) pass validateRateLimit
\* within any window of 15 minutes
C24_AtMostTenPass ==
    \A k \in DOMAIN passedAt : Cardinality(PassedInWindow(k)) <= validateMaxRequests

\* the requests the /api/ limiter let pass in the 15 minutes that end at moment t
ApiPassedUntil(t) ==
    ApiTotal([u \in {x \in ApiMoments : x <= t /\ t - x < apiWindowMs} |-> apiPassed[u]])

\* C25: the /api/ limiter lets at most maxRequests (100) requests of one IP pass
\* within any interval of 15 minutes
C25_AtMostHundredPass ==
    \A t \in ApiMoments : ApiPassedUntil(t) <= apiMaxRequests

\* a save was attempted for the submission and did not succeed in time
SaveFailed ==
    /\ Processed
    /\ \E k \in DOMAIN req.calls : req.calls[k] = "save"
    /\ ~req.response.savedToDatabase

\* an email was attempted for the submission and was not sent
MailFailed ==
    /\ Processed
    /\ EmailCalls # {}
    /\ req.mails # {"confirmation", "admin"}

\* C26: a submission whose save or whose email fails is still answered 200 with
\* success = true, and after a failed save both emails are attempted when the
\* verdict is not spam
C26_FailuresKeepResponse ==
    (SaveFailed \/ MailFailed) =>
        /\ req.response.status = 200
        /\ req.response.success
        /\ (SaveFailed /\ ~req.isSpam) =>
              EmailCalls = {"sendConfirmationEmail", "sendAdminNotification"}

\* C26: the save of a non-spam submission failed, an email of it failed too
C26_Witness ==
    /\ SaveFailed
    /\ MailFailed
    /\ ~req.isSpam
    /\ ~req.stored
    /\ req.response.status = 200

\* C27: the savedToDatabase of the response of a processed submission is true
\* exactly when the record of the submission is in the store
C27_SavedIffStored ==
    Processed => (req.response.savedToDatabase <=> req.stored)

\* C28: a response of variant 1 with emailSent = true belongs to a submission
\* whose confirmation and whose admin notification were both sent
C28_EmailSentMeansSent ==
    (Processed /\ ctrlVariant = "ctrlV1" /\ req.response.emailSent) =>
        req.mails = {"confirmation", "admin"}

\* C29: a call of connect() that throws after its attempts failed has made
\* 1 + maxRetries attempts
C29_AttemptsBeforeThrow ==
    (db.uri /\ db.result = "thrown") => db.attempts = 1 + maxRetries

\* C30: a request to which ensureDBConnection returned true saves its record on
\* a connection in the state 'connected'
C30_ConnectedAtSave ==
    \A r \in Requests : ensure[r].pc = "saved" => ensure[r].seen = 1

====
